---- MODULE Spec2Model ----
(***************************************************************************)
(* A model of the blog automation scripts (main.py, autoblog.py, core/).   *)
(* The module holds one group of variables per subsystem and one           *)
(* specification per subsystem:                                            *)
(*   SpecGen    the provider fallback of MultiAIProvider / MultiAIClient   *)
(*   SpecGit    GitHubManager.create_file against the remote content API   *)
(*   Spec       AutoBlogEngine.build_site (main.py)                        *)
(*   SpecSlug   the two slug derivations                                   *)
(*   SpecParse  ContentParser.parse                                        *)
(* Strings are sequences of one-character strings.                         *)
(***************************************************************************)
EXTENDS Integers, Sequences, FiniteSets, TLC

VARIABLES
    \* --- text generation (MultiAIProvider.generate / MultiAIClient.generate)
    variant,      \* "main" (MultiAIProvider) or "autoblog" (MultiAIClient)
    clients,      \* the providers a client was configured for
    priority,     \* the order of the request in progress
    idx,          \* position of the for loop in priority
    calls,        \* the provider calls made for the request, in order
    gpc,          \* "idle" | "loop" | "returned" | "raised"
    result,       \* the value generate returned
    last_error,   \* main.py: the provider whose exception was kept last
    \* --- remote content API (GitHubManager.create_file)
    default_branch, \* the branch the API uses when a request names none
    store,        \* what the repository holds: <<branch, path>> -> entry
    next_sha,     \* the next version identifier the server hands out
    cf,           \* the create_file call in progress
    inflight,     \* the provider calls begun and not yet returned or raised
    \* --- slug derivation
    title,        \* the headline the provider answered with
    sl,           \* the derivation made from it: by whom, slug and upload path
    \* --- ContentParser.parse
    raw,          \* what frontmatter.loads makes of raw_md: metadata and content
    filename,     \* the name of the file parsed
    now,          \* the day datetime.now() answers with
    pp,           \* the call: "ready" | "parsed" | "raised", and the post
    \* --- AutoBlogEngine.build_site (main.py)
    content,      \* the files under content/ on the source branch
    domain,       \* whether the site's configuration names a domain
    state_file,   \* the site's local state file
    state,        \* self.state of the engine
    deps_ok,      \* whether the engine's clients could be constructed
    builds,       \* the runs so far; the clock of the model
    bpc,          \* where build_site is
    files,        \* the dict get_files returned: <<name, file>> in dict order
    fi,           \* position of the loop over files
    downloads,    \* the files whose download this build asked for, in order
    posts,        \* the post list
    pi,           \* position of the loop over posts
    uploads,      \* the uploads of this build: path, outcome, posts listed
    listed,       \* the branch that served the build's listing of content/
    \* --- AutoBlogEngine.fetch_and_generate (main.py)
    languages,    \* self.languages
    source_branch, \* self.source_branch
    prod_branch,  \* self.prod_branch
    cycles,       \* the fetch cycles so far
    fpc,          \* where fetch_and_generate is
    pending,      \* pending_translations
    li,           \* position of the loop over languages
    flog,         \* what the cycle did: translations and articles
    \* --- main
    args,         \* the command line: list, fetch, build, all, blog
    blogs,        \* the names of the sites of config.json, in its order
    blog_configs, \* the sites the loop of main runs over
    si,           \* position of the loop over blog_configs
    mpc,          \* where main is
    log           \* what main did so far: state files loaded and saved, phases

genVars == <<variant, clients, priority, idx, calls, gpc, result, last_error, inflight>>

gitVars == <<default_branch, store, next_sha, cf>>

slugVars == <<title, sl>>

parseVars == <<raw, filename, now, pp>>

buildVars == <<content, domain, state_file, state, deps_ok, builds, bpc, files, fi,
               downloads, posts, pi, uploads, listed>>
\* the variables of the build other than the source files
buildRest == <<domain, state_file, state, deps_ok, builds, bpc, files, fi, downloads, posts,
               pi, uploads, listed>>

fetchVars == <<languages, source_branch, prod_branch, cycles, fpc, pending, li, flog>>

mainVars == <<args, blogs, blog_configs, si, mpc, log>>

vars == <<genVars, gitVars, slugVars, parseVars, buildVars, fetchVars, mainVars>>

\* what the actions of one subsystem leave alone
notGen == <<gitVars, slugVars, parseVars, buildVars, fetchVars, mainVars>>
notGit == <<genVars, slugVars, parseVars, buildVars, fetchVars, mainVars>>
notSlug == <<genVars, gitVars, parseVars, buildVars, fetchVars, mainVars>>
notParse == <<genVars, gitVars, slugVars, buildVars, fetchVars, mainVars>>
notBuild == <<genVars, gitVars, slugVars, parseVars, fetchVars, mainVars>>
notMain == <<genVars, gitVars, slugVars, parseVars, buildVars, fetchVars>>
\* what a fetch cycle leaves alone; of the build's variables it writes content
notFetch == <<genVars, gitVars, slugVars, parseVars, mainVars>>

\* ------------------------------------------------------------------ bounds
MaxTextLen == 2
MaxWrites == 2
MaxTitleLen == 3
MaxClock == 2
MaxOverflow == 2
MaxFiles == 2
MaxBuilds == 2
MaxCycles == 2

\* ----------------------------------------------------------------- strings
Whitespace == {" ", "\n"}

RECURSIVE StringsUpTo(_, _)
StringsUpTo(alphabet, n) ==
    IF n = 0 THEN {<<>>}
    ELSE LET shorter == StringsUpTo(alphabet, n - 1)
         IN  shorter \cup {Append(s, c) : s \in shorter, c \in alphabet}

SetMin(S) == CHOOSE x \in S : \A y \in S : x <= y
SetMax(S) == CHOOSE x \in S : \A y \in S : x >= y

\* str.strip(): leading and trailing whitespace removed
Strip(s) ==
    LET solid == {i \in 1..Len(s) : s[i] \notin Whitespace}
    IN  IF solid = {} THEN <<>> ELSE SubSeq(s, SetMin(solid), SetMax(solid))

RECURSIVE SeqFilter(_, _)
SeqFilter(s, keep) ==
    IF s = <<>> THEN <<>>
    ELSE (IF Head(s) \in keep THEN <<Head(s)>> ELSE <<>>) \o SeqFilter(Tail(s), keep)

SeqRange(s) == {s[i] : i \in 1..Len(s)}

\* re.sub(r'[class]+', rep, s): every maximal run of characters of the class
\* becomes rep
RECURSIVE SubRuns(_, _, _)
SubRuns(s, class, rep) ==
    IF s = <<>> THEN <<>>
    ELSE IF Head(s) \in class
         THEN IF Len(s) > 1 /\ s[2] \in class
              THEN SubRuns(Tail(s), class, rep)
              ELSE rep \o SubRuns(Tail(s), class, rep)
         ELSE <<Head(s)>> \o SubRuns(Tail(s), class, rep)

\* str.replace(old, new): every occurrence, left to right, not overlapping
RECURSIVE ReplaceAll(_, _, _)
ReplaceAll(s, old, new) ==
    IF Len(s) < Len(old) \/ old = <<>> THEN s
    ELSE IF SubSeq(s, 1, Len(old)) = old
         THEN new \o ReplaceAll(SubSeq(s, Len(old) + 1, Len(s)), old, new)
         ELSE <<Head(s)>> \o ReplaceAll(Tail(s), old, new)

\* s[:n]
Take(s, n) == SubSeq(s, 1, IF Len(s) < n THEN Len(s) ELSE n)

\* str.lower() on the letters of the model's alphabet
LowerChar(c) == IF c = "A" THEN "a" ELSE IF c = "S" THEN "s" ELSE c
Lower(s) == [i \in 1..Len(s) |-> LowerChar(s[i])]

\* ========================================================================
\* Text generation with fallback
\* ========================================================================
Providers == {"gemini", "openai", "anthropic"}
ProviderOrder == <<"gemini", "openai", "anthropic">>
\* the values of the preferred argument: a provider, or a name no client has
PreferredNames == Providers \cup {"other"}

Texts == StringsUpTo({" ", "a"}, MaxTextLen)

NoText == <<"<none>">>
Raised == [kind |-> "raise", text |-> NoText]
NoneText == [kind |-> "none", text |-> NoText]
TextOf(t) == [kind |-> "text", text |-> t]

\* What one provider call can do: raise, answer with a text, or answer with a
\* response that carries no text (response.text / message.content is None;
\* anthropic's content[0].text is a str or the indexing raises).
ProviderOutcomes(p) ==
    {Raised} \cup {TextOf(t) : t \in Texts}
             \cup (IF p \in {"gemini", "openai"} THEN {NoneText} ELSE {})

\* the priority list built without the "not in priority" tests
MainPriorityRepeats(cl, preferred) ==
    <<preferred>> \o SeqFilter(ProviderOrder, cl)

\* main.py 184-187: the preferred name first, then the configured providers
\* not yet in the list, in the order gemini, openai, anthropic
MainPriority(cl, preferred) ==
    <<preferred>> \o SeqFilter(ProviderOrder, (cl \ {preferred}))

\* autoblog.py 32-71: self.providers holds the configured providers in the
\* order of construction
AutoblogProviders(cl) == SeqFilter(ProviderOrder, cl)

PriorityOf(v, cl, preferred) ==
    IF v = "main" THEN MainPriority(cl, preferred) ELSE AutoblogProviders(cl)

GenInit ==
    /\ variant \in {"main", "autoblog"}
    /\ clients \in SUBSET Providers
    \* MultiAIClient.__init__ raises ValueError with no provider (autoblog.py 73)
    /\ (variant = "autoblog" => clients # {})
    /\ priority = <<>>
    /\ idx = 1
    /\ calls = <<>>
    /\ gpc = "idle"
    /\ result = NoneText
    /\ last_error = "None"
    /\ inflight = <<>>

GenQuiet ==
    /\ variant = "main"
    /\ clients = {}
    /\ priority = <<>>
    /\ idx = 1
    /\ calls = <<>>
    /\ gpc = "idle"
    /\ result = NoneText
    /\ last_error = "None"
    /\ inflight = <<>>

\* generate(prompt, preferred) is entered: the priority list is built. The
\* callers of generate are the fetch phase's (main.py 371, 456, 466, 494,
\* autoblog.py 164, 172).
GenStart(preferred) ==
    /\ mpc = "fetching"
    /\ gpc \in {"idle", "returned", "raised"}
    /\ priority' = PriorityOf(variant, clients, preferred)
    /\ idx' = 1
    /\ calls' = <<>>
    /\ gpc' = "loop"
    /\ result' = NoneText
    /\ last_error' = "None"
    /\ UNCHANGED <<variant, clients, inflight, notGen>>

\* a name without a client that is called all the same
GenSkipCalls ==
    /\ gpc = "loop"
    /\ idx <= Len(priority)
    /\ variant = "main"
    /\ priority[idx] \notin clients
    /\ calls' = Append(calls, [provider |-> priority[idx], outcome |-> Raised])
    /\ idx' = idx + 1
    /\ UNCHANGED <<variant, clients, priority, gpc, result, last_error, inflight, notGen>>

\* main.py 192-193: a name without a client is passed over
GenSkip ==
    /\ gpc = "loop"
    /\ idx <= Len(priority)
    /\ variant = "main"
    /\ priority[idx] \notin clients
    /\ idx' = idx + 1
    /\ UNCHANGED <<variant, clients, priority, calls, gpc, result, last_error, inflight,
                   notGen>>

\* a try body whose except clause gives up with no value instead of going on
TryBodyGivesUp(v, outcome) ==
    IF outcome.kind = "raise" THEN NoneText
    ELSE IF v = "main" THEN outcome
    ELSE IF outcome.kind = "none" THEN Raised
    ELSE TextOf(Strip(outcome.text))

\* What the try body makes of a provider's answer: main.py returns it as it
\* is (200, 210, 220); autoblog.py returns it stripped (87, 96, 104), and
\* .strip() on a missing text raises inside the try.
TryBody(v, outcome) ==
    IF outcome.kind = "raise" THEN Raised
    ELSE IF v = "main" THEN outcome
    ELSE IF outcome.kind = "none" THEN Raised
    ELSE TextOf(Strip(outcome.text))

\* a call that is started and not waited for: the loop goes on to the next
\* provider while the call runs
GenBeginNoAwait ==
    /\ gpc = "loop"
    /\ idx <= Len(priority)
    /\ priority[idx] \in clients
    /\ inflight' = Append(inflight, priority[idx])
    /\ idx' = idx + 1
    /\ UNCHANGED <<variant, clients, priority, calls, gpc, result, last_error, notGen>>

\* main.py 195-220, autoblog.py 79-104: the provider's call begins. main.py
\* awaits the coroutine of GeminiClient and the worker thread of
\* asyncio.to_thread; autoblog.py calls the client in the coroutine itself.
\* In each the code after the call runs only once the call is over.
GenBegin ==
    /\ gpc = "loop"
    /\ idx <= Len(priority)
    /\ priority[idx] \in clients
    /\ inflight' = Append(inflight, priority[idx])
    /\ gpc' = "await"
    /\ UNCHANGED <<variant, clients, priority, idx, calls, result, last_error, notGen>>

\* the rest of the iteration: the call is over; a value is returned, or the
\* exception is caught and the loop goes on
GenCall(outcome) ==
    /\ gpc = "await"
    /\ outcome \in ProviderOutcomes(priority[idx])
    /\ inflight' = SubSeq(inflight, 1, Len(inflight) - 1)
    /\ calls' = Append(calls, [provider |-> priority[idx], outcome |-> outcome])
    /\ LET got == TryBody(variant, outcome)
       IN  IF got.kind = "raise"
           THEN /\ idx' = idx + 1
                /\ gpc' = "loop"
                /\ last_error' = IF variant = "main" THEN priority[idx] ELSE last_error
                /\ UNCHANGED result
           ELSE /\ gpc' = "returned"
                /\ result' = got
                /\ UNCHANGED <<idx, last_error>>
    /\ UNCHANGED <<variant, clients, priority, notGen>>

\* main.py 227-228, autoblog.py 110: the loop ran out
GenExhaust ==
    /\ gpc = "loop"
    /\ idx > Len(priority)
    /\ gpc' = "raised"
    /\ UNCHANGED <<variant, clients, priority, idx, calls, result, last_error, inflight,
                   notGen>>

GenNext ==
    \/ \E preferred \in PreferredNames : GenStart(preferred)
    \/ GenSkip
    \/ GenBegin
    \/ \E outcome \in UNION {ProviderOutcomes(p) : p \in Providers} : GenCall(outcome)
    \/ GenExhaust


\* ========================================================================
\* The remote content API and GitHubManager.create_file
\* ========================================================================
Branches == {"main", "gh-pages"}
Paths == {"a.md", "docs"}

Absent == [kind |-> "absent", sha |-> 0]
FileAt(sha) == [kind |-> "file", sha |-> sha]
Dir == [kind |-> "dir", sha |-> 0]

\* github_service.py 24, 31-32: the branch is sent only when it is not
\* "main"; a request without it is served from the default branch
Resolve(branch) == IF branch = "main" THEN default_branch ELSE branch

\* the answers the API can give to GET /contents/{path}: an exception of the
\* transport, an error status (401, 403, 5xx), or 404 / 200 by what is held
GetOutcomes(entry) ==
    {"exception", "error"} \cup (IF entry.kind = "absent" THEN {"404"} ELSE {"200"})

\* the answers to PUT /contents/{path}
PutOutcomes == {"exception", "error", "served"}

CfIdle == [pc |-> "idle", path |-> "a.md", branch |-> "main", status |-> "none",
           held |-> Absent, sha |-> 0, put |-> "none", put_sha |-> 0,
           put_status |-> "none", ret |-> "none"]

GitInit ==
    /\ default_branch \in Branches
    /\ store \in [Branches \X Paths -> {Absent, FileAt(1), Dir}]
    /\ next_sha = 2
    /\ cf = CfIdle

GitQuiet ==
    /\ default_branch = "main"
    /\ store = [k \in Branches \X Paths |-> Absent]
    /\ next_sha = 2
    /\ cf = CfIdle

\* create_file 69-70: existing is the JSON of a 200 answer, None otherwise;
\* sha = existing.get('sha') if existing else None
ShaFrom(status, entry) ==
    IF status = "200" /\ entry.kind = "file" THEN entry.sha ELSE 0

\* create_file 66-70: the GET of the path. An exception of the transport is
\* raised again by api_call (42); the list answered for a directory has no
\* .get, which raises too.
CreateFileGet(path, branch, outcome) ==
    /\ cf.pc \in {"idle", "returned", "raised"}
    /\ LET entry == store[<<Resolve(branch), path>>]
       IN  /\ outcome \in GetOutcomes(entry)
           /\ cf' = [CfIdle EXCEPT
                  !.pc = IF outcome = "exception" \/ (outcome = "200" /\ entry.kind = "dir")
                         THEN "raised" ELSE "got",
                  !.path = path, !.branch = branch,
                  !.status = outcome, !.held = entry,
                  !.sha = ShaFrom(outcome, entry)]
    /\ UNCHANGED <<default_branch, store, next_sha, notGit>>

\* what the server does with a PUT it serves: it creates a file that is not
\* there when no sha is sent, updates a file whose sha is the one sent, and
\* refuses everything else (409 / 422)
Served(entry, sha) ==
    IF entry.kind = "absent" /\ sha = 0 THEN "201"
    ELSE IF entry.kind = "file" /\ sha = entry.sha THEN "200"
    ELSE "422"

\* create_file 72-91: the PUT, with the sha when there is one
CreateFilePut(outcome) ==
    /\ cf.pc = "got"
    /\ outcome \in PutOutcomes
    /\ LET key == <<Resolve(cf.branch), cf.path>>
           status == IF outcome = "served" THEN Served(store[key], cf.sha) ELSE outcome
       IN  /\ (status \in {"200", "201"} => next_sha <= MaxWrites + 1)
           /\ cf' = [cf EXCEPT
                  !.pc = IF outcome = "exception" THEN "raised" ELSE "returned",
                  !.put = IF outcome = "exception" THEN "none" ELSE "sent",
                  !.put_sha = cf.sha, !.put_status = status,
                  !.ret = IF outcome = "exception" THEN "none"
                          ELSE IF status \in {"200", "201"} THEN "True" ELSE "False"]
           /\ IF status \in {"200", "201"}
              THEN /\ store' = [store EXCEPT ![key] = FileAt(next_sha)]
                   /\ next_sha' = next_sha + 1
              ELSE UNCHANGED <<store, next_sha>>
    /\ UNCHANGED <<default_branch, notGit>>

\* another writer of the repository commits: a file appears, changes or goes
ExternalCommit(branch, path, delete) ==
    /\ next_sha <= MaxWrites + 1
    /\ store[<<branch, path>>].kind # "dir"
    /\ (delete => store[<<branch, path>>].kind = "file")
    /\ store' = [store EXCEPT ![<<branch, path>>] =
                    IF delete THEN Absent ELSE FileAt(next_sha)]
    /\ next_sha' = next_sha + 1
    /\ UNCHANGED <<default_branch, cf, notGit>>

GitNext ==
    \/ \E path \in Paths, branch \in Branches, outcome \in {"exception", "error", "404", "200"} :
           CreateFileGet(path, branch, outcome)
    \/ \E outcome \in PutOutcomes : CreateFilePut(outcome)
    \/ \E branch \in Branches, path \in Paths, delete \in BOOLEAN :
           ExternalCommit(branch, path, delete)

\* ========================================================================
\* Slug derivation and the upload path
\* ========================================================================
\* the characters a headline is drawn from: letters of both cases, a digit,
\* whitespace, the hyphen, punctuation, the path separator and a quote
TitleChars == {"a", "s", "A", "1", " ", "-", "!", "/", "'"}
\* the classes of the regular expressions: a-z, 0-9 and "-"
LowerLetters == {"a", "s"}
Digits == {"1"}
SlugChars == LowerLetters \cup Digits \cup {"-"}

\* main.py 467: new_title.strip().replace('"', '').replace("'", "")
NormalizeTitle(t) == SeqFilter(Strip(t), TitleChars \ {"'"})

\* main.py 473:
\* re.sub(r'[^a-z0-9-]', '', re.sub(r'\s+', '-', new_title.lower()))
CleanSlug(t) == SeqFilter(SubRuns(Lower(t), Whitespace, <<"-">>), SlugChars)

\* the two substitutions of autoblog.py 165 applied in the other order
AutoblogSlugSwapped(headline) ==
    SeqFilter(SubRuns(Lower(headline), {"s", "-"}, <<"-">>), SlugChars)

\* autoblog.py 165:
\* re.sub(r'[s-]+', '-', re.sub(r'[^a-z0-9s-]', '', headline.lower()))
\* (the classes name the letter s, not whitespace)
AutoblogSlug(headline) ==
    SubRuns(SeqFilter(Lower(headline), SlugChars \cup {"s"}), {"s", "-"}, <<"-">>)

\* main.py 496, autoblog.py 174: f"content/{lang}/{slug}.md"
ContentPath(lang, slug) ==
    <<"c", "o", "n", "t", "e", "n", "t", "/">> \o lang \o <<"/">> \o slug
        \o <<".", "m", "d">>

SlNone == [by |-> "none", slug |-> <<>>, path |-> <<>>]

SlugInit ==
    /\ title \in StringsUpTo(TitleChars, MaxTitleLen)
    /\ sl = SlNone

SlugQuiet ==
    /\ title = <<>>
    /\ sl = SlNone

\* fetch_and_generate 466-496: the title is cleaned, slugged, and the path built
SlugMain ==
    /\ sl.by = "none"
    /\ LET new_title == NormalizeTitle(title)
           clean_slug == CleanSlug(new_title)
       IN  sl' = [by |-> "main", slug |-> clean_slug,
                  path |-> ContentPath(<<"e", "n">>, clean_slug)]
    /\ UNCHANGED <<title, notSlug>>

\* generate_content 164-174
SlugAutoblog ==
    /\ sl.by = "none"
    /\ LET slug == AutoblogSlug(title)
       IN  sl' = [by |-> "autoblog", slug |-> slug,
                  path |-> ContentPath(<<"e", "n">>, slug)]
    /\ UNCHANGED <<title, notSlug>>

\* the slug comes back as a headline (a title that already is a slug)
SlugAgain ==
    /\ sl.by # "none"
    /\ title' = sl.slug
    /\ sl' = SlNone
    /\ UNCHANGED notSlug

SlugNext == SlugMain \/ SlugAutoblog \/ SlugAgain

\* ========================================================================
\* ContentParser.parse
\* ========================================================================
SummaryLen == 200

\* A metadata value: missing, a str, a date the YAML loader built from an
\* unquoted timestamp, or a list. v is the text (or the items).
Missing == [t |-> "missing", v |-> <<>>]
Str(v) == [t |-> "str", v |-> v]
YamlDate(v) == [t |-> "date", v |-> v]
List(v) == [t |-> "list", v |-> v]

DotMd == <<".", "m", "d">>
DotHtml == <<".", "h", "t", "m", "l">>

\* the fields of an ISO date as written and as numbers
YearNames == {<<"2024", 2024>>, <<"2025", 2025>>, <<"2026", 2026>>}
MonthNames == {<<"01", 1>>, <<"05", 5>>, <<"11", 11>>, <<"12", 12>>}
DayNames == {<<"01", 1>>, <<"02", 2>>, <<"03", 3>>, <<"09", 9>>}
NumberOf(names, text) == (CHOOSE n \in names : n[1] = text)[2]
NameOf(names, number) == (CHOOSE n \in names : n[2] = number)[1]
Known(names, text) == \E n \in names : n[1] = text

\* datetime.now(): a datetime is <<year, month, day>>
NowAt(clock) == <<2026, 11, clock>>

\* datetime.isoformat()
IsoFormat(dt) ==
    <<NameOf(YearNames, dt[1]), "-", NameOf(MonthNames, dt[2]), "-", NameOf(DayNames, dt[3])>>

\* datetime.fromisoformat(date_str): a datetime, or an exception for what is
\* not a str or not of the form YYYY-MM-DD with fields in range
IsoParses(value) ==
    /\ value.t = "str"
    /\ Len(value.v) = 5
    /\ value.v[2] = "-" /\ value.v[4] = "-"
    /\ Known(YearNames, value.v[1])
    /\ Known(MonthNames, value.v[3])
    /\ Known(DayNames, value.v[5])
FromIsoFormat(value) ==
    <<NumberOf(YearNames, value.v[1]), NumberOf(MonthNames, value.v[3]),
      NumberOf(DayNames, value.v[5])>>

\* dict.get(key, default)
Get(metadata, key, default) ==
    IF metadata[key] = Missing THEN default ELSE metadata[key]

\* markdown.Markdown.convert: a paragraph around the text, nothing for none
Convert(text) ==
    IF text = <<>> THEN <<>>
    ELSE <<"<", "p", ">">> \o text \o <<"<", "/", "p", ">">>

\* parser.py 14: filename.replace('.md', '')
DefaultTitle(name) == Str(ReplaceAll(name, DotMd, <<>>))

\* parser.py 15-20: the date of the front matter, or now when it is missing
\* or fromisoformat raises
ParseDate(metadata, clock) ==
    LET date_str == Get(metadata, "date", Str(IsoFormat(NowAt(clock))))
    IN  IF IsoParses(date_str) THEN FromIsoFormat(date_str) ELSE NowAt(clock)

\* the default summary cut with no ellipsis added
DefaultSummaryBare(html_content) == Str(Take(html_content, SummaryLen))

\* parser.py 30: html_content[:200] + "..."
DefaultSummary(html_content) ==
    Str(Take(html_content, SummaryLen) \o <<".", ".", ".">>)

\* parser.py 9-32
Parse(loaded, name, clock) ==
    LET metadata == loaded.metadata
        html_content == Convert(loaded.content)
    IN  [title |-> Get(metadata, "title", DefaultTitle(name)),
         date |-> ParseDate(metadata, clock),
         slug |-> ReplaceAll(name, DotMd, DotHtml),
         content |-> html_content,
         summary |-> Get(metadata, "summary", DefaultSummary(html_content)),
         tags |-> Get(metadata, "tags", List(<<>>))]

NoPost == [title |-> Missing, date |-> <<0, 0, 0>>, slug |-> <<>>,
           content |-> <<>>, summary |-> Missing, tags |-> Missing]

\* the inputs of the model
DateValues ==
    {Missing,
     Str(<<"2024", "-", "05", "-", "01">>),
     Str(<<"2025", "-", "12", "-", "09">>),
     Str(<<"2024", "-", "13", "-", "01">>),
     Str(<<"2024", "/", "05", "/", "01">>),
     Str(<<>>),
     YamlDate(<<"2024", "-", "05", "-", "01">>)}
Metadatas ==
    [title : {Missing, Str(<<"T">>)},
     date : DateValues,
     summary : {Missing, Str(<<"S">>), Str(<<>>)},
     tags : {Missing, List(<<"t">>)}]
Body(n) == [i \in 1..n |-> "x"]
BodyLens == {0, 1, SummaryLen - 8, SummaryLen - 7} \cup
            {SummaryLen - 7 + k : k \in 1..MaxOverflow}
FileNames == {<<"a">> \o DotMd, <<"a">> \o DotMd \o <<"x">> \o DotMd, <<"n">>}
Loaded ==
    [loads : {"ok"}, metadata : Metadatas, content : {Body(n) : n \in BodyLens}]
    \cup [loads : {"raise"}, metadata : {[title |-> Missing, date |-> Missing,
                                         summary |-> Missing, tags |-> Missing]},
          content : {<<>>}]

PpReady == [pc |-> "ready", post |-> NoPost]

ParseInit ==
    /\ raw \in Loaded
    /\ filename \in FileNames
    /\ now \in 1..MaxClock
    /\ pp = PpReady

ParseQuiet ==
    /\ raw = [loads |-> "raise", metadata |-> [title |-> Missing, date |-> Missing,
                                               summary |-> Missing, tags |-> Missing],
              content |-> <<>>]
    /\ filename = <<"n">>
    /\ now = 1
    /\ pp = PpReady

\* parse(raw_md, filename) on a document frontmatter.loads accepts
ParseCall ==
    /\ pp.pc = "ready"
    /\ raw.loads = "ok"
    /\ pp' = [pc |-> "parsed", post |-> Parse(raw, filename, now)]
    /\ UNCHANGED <<raw, filename, now, notParse>>

\* parser.py 10: frontmatter.loads raises (raw_md is None, or the YAML of the
\* front matter is broken) and parse raises with it
ParseRaise ==
    /\ pp.pc = "ready"
    /\ raw.loads = "raise"
    /\ pp' = [pc |-> "raised", post |-> NoPost]
    /\ UNCHANGED <<raw, filename, now, notParse>>

\* the clock moves on and the same document is parsed again
ParseLater ==
    /\ pp.pc # "ready"
    /\ now < MaxClock
    /\ now' = now + 1
    /\ pp' = PpReady
    /\ UNCHANGED <<raw, filename, notParse>>

ParseNext == ParseCall \/ ParseRaise \/ ParseLater

\* ========================================================================
\* AutoBlogEngine.build_site (main.py)
\* ========================================================================
Langs == {"en", "es"}
LangOrder == <<"en", "es">>
NameA == <<"a">> \o DotMd
NameB == <<"b">> \o DotMd
NameTxt == <<"n", ".", "t", "x", "t">>
\* the name of the article a fetch cycle generates
NameC == <<"c">> \o DotMd
\* the order in which the API lists the names of a directory
NameOrder == <<NameA, NameB, NameC, NameTxt>>
\* the files a site starts with, and the ones only a fetch cycle writes
SeedIds == {<<"en", NameA>>, <<"en", NameB>>, <<"es", NameA>>, <<"en", NameTxt>>}
FileIds == SeedIds \cup {<<"es", NameB>>, <<"en", NameC>>, <<"es", NameC>>}

\* str.endswith
EndsWith(s, suffix) ==
    Len(s) >= Len(suffix) /\ SubSeq(s, Len(s) - Len(suffix) + 1, Len(s)) = suffix

\* What a file is to a build: "ok" downloads and loads; "http_error" is
\* answered with a status other than 200 (get_file_content returns None, which
\* frontmatter.loads raises on); "net_error" makes requests.get raise;
\* "bad_yaml" downloads and frontmatter.loads raises. date is its front
\* matter's date, summary its front matter's summary (missing, or a YAML list,
\* which is not a str), sha its version identifier.
Healths == {"ok", "http_error", "net_error", "bad_yaml"}
FileDates == {Str(<<"2024", "-", "05", "-", "01">>), Str(<<"2025", "-", "12", "-", "09">>)}
FileSummaries == {Missing, List(<<"t">>)}
NoFile == [present |-> FALSE, health |-> "ok", date |-> Missing, summary |-> Missing, sha |-> 0]
FileStates(id) ==
    IF EndsWith(id[2], DotMd)
    THEN [present : {TRUE}, health : {"ok"}, date : FileDates, summary : FileSummaries,
          sha : {1}]
         \cup [present : {TRUE}, health : Healths \ {"ok"}, date : {Missing},
               summary : {Missing}, sha : {1}]
    ELSE [present : {TRUE}, health : {"ok"}, date : {Missing}, summary : {Missing}, sha : {1}]
Present(c) == {id \in FileIds : c[id].present}
Has(c, id) == id \in FileIds /\ c[id].present

\* main.py 296: the state of a site that has no state file yet
FreshState == [processed_files |-> <<>>, last_build |-> 0]
NoStateFile == [exists |-> FALSE, processed_files |-> <<>>, last_build |-> 0]

\* main.py 292-296
LoadState(file) ==
    IF file.exists
    THEN [processed_files |-> file.processed_files, last_build |-> file.last_build]
    ELSE FreshState

BuildInit ==
    /\ \E seed \in [SeedIds -> UNION {FileStates(id) \cup {NoFile} : id \in SeedIds}] :
          /\ \A id \in SeedIds : seed[id] \in FileStates(id) \cup {NoFile}
          /\ Cardinality({id \in SeedIds : seed[id].present}) <= MaxFiles
          /\ content = [id \in FileIds |-> IF id \in SeedIds THEN seed[id] ELSE NoFile]
    /\ domain \in BOOLEAN
    /\ state_file = NoStateFile
    /\ state = FreshState
    /\ deps_ok = TRUE
    /\ builds = 0
    /\ bpc = "idle"
    /\ files = <<>>
    /\ fi = 1
    /\ downloads = <<>>
    /\ posts = <<>>
    /\ pi = 1
    /\ uploads = <<>>
    /\ listed = "none"

BuildQuiet ==
    /\ content = [id \in FileIds |-> NoFile]
    /\ domain = FALSE
    /\ state_file = NoStateFile
    /\ state = FreshState
    /\ deps_ok = TRUE
    /\ builds = 0
    /\ bpc = "idle"
    /\ files = <<>>
    /\ fi = 1
    /\ downloads = <<>>
    /\ posts = <<>>
    /\ pi = 1
    /\ uploads = <<>>
    /\ listed = "none"

\* main.py 263-290, 512-516: the engine of a run is constructed, its state
\* loaded, and build_site entered; without its clients it returns at once
BuildStart(constructed) ==
    /\ bpc \in {"idle", "done", "returned"}
    /\ fpc \in {"idle", "done"}
    /\ builds < MaxBuilds
    /\ builds' = builds + 1
    /\ deps_ok' = constructed
    /\ state' = LoadState(state_file)
    /\ bpc' = IF constructed THEN "list" ELSE "returned"
    /\ files' = <<>>
    /\ fi' = 1
    /\ downloads' = <<>>
    /\ posts' = <<>>
    /\ pi' = 1
    /\ uploads' = <<>>
    /\ listed' = "none"
    /\ UNCHANGED <<content, domain, state_file, notBuild>>

\* dict: files[name] = url keeps the place of a name that is there already
RECURSIVE DictSet(_, _, _)
DictSet(d, name, url) ==
    IF d = <<>> THEN <<<<name, url>>>>
    ELSE IF Head(d)[1] = name THEN <<<<name, url>>>> \o Tail(d)
    ELSE <<Head(d)>> \o DictSet(Tail(d), name, url)

\* github_service.py 49-51: the files of one listed directory, by name
RECURSIVE DirFiles(_, _, _, _)
DirFiles(d, c, lang, names) ==
    IF names = <<>> THEN d
    ELSE DirFiles(IF Has(c, <<lang, Head(names)>>)
                  THEN DictSet(d, Head(names), <<lang, Head(names)>>) ELSE d,
                  c, lang, Tail(names))

\* github_service.py 44-56: get_files(repo, "content"): the directory is
\* listed and each sub-directory in turn, into one dict keyed by file name;
\* a listing answered with a status other than 200 adds nothing
RECURSIVE GetFiles(_, _, _)
GetFiles(c, answers, langs) ==
    IF answers["content"] # "ok" \/ langs = <<>> THEN <<>>
    ELSE LET lang == langs[Len(langs)]
             before == GetFiles(c, answers, SubSeq(langs, 1, Len(langs) - 1))
         IN  IF answers[lang] = "ok" /\ \E id \in Present(c) : id[1] = lang
             THEN DirFiles(before, c, lang, NameOrder)
             ELSE before

\* the answers of the API to the listings of content/ and of its directories
ListAnswers == [{"content"} \cup Langs -> {"ok", "error", "exception"}]
\* api_call raises again what the transport raised (github_service.py 42)
ListRaises(c, answers) ==
    \/ answers["content"] = "exception"
    \/ /\ answers["content"] = "ok"
       /\ \E lang \in Langs :
            /\ \E id \in Present(c) : id[1] = lang
            /\ answers[lang] = "exception"

\* main.py 520-526: the listing is asked of the source branch
BuildList(answers) ==
    /\ bpc = "list"
    /\ listed' = Resolve(source_branch)
    /\ IF ListRaises(content, answers)
       THEN /\ bpc' = "returned"
            /\ UNCHANGED files
       ELSE /\ bpc' = "fetch"
            /\ files' = GetFiles(content, answers, LangOrder)
    /\ UNCHANGED <<content, domain, state_file, state, deps_ok, builds, fi, downloads, posts, pi,
                   uploads, notBuild>>

\* what frontmatter.loads makes of a file that downloads and loads
LoadedFile(file) ==
    [loads |-> "ok",
     metadata |-> [title |-> Missing, date |-> file.date, summary |-> file.summary,
                   tags |-> Missing],
     content |-> <<"x">>]

\* the loop body with a failure that ends the loop: what a break or a return
\* in the except clause would do
FetchOneStops(c, entry, list, clock) ==
    IF ~EndsWith(entry[1], DotMd) THEN [posts |-> list, goes_on |-> TRUE]
    ELSE IF c[entry[2]].health = "ok"
         THEN [posts |-> Append(list, Parse(LoadedFile(c[entry[2]]), entry[1], clock)),
               goes_on |-> TRUE]
         ELSE [posts |-> list, goes_on |-> FALSE]

\* main.py 527-534: one file of the dict: a name that ends in .md is
\* downloaded and parsed and its post appended; any exception on the way
\* (requests.get raising, loads raising on None or on a broken front matter)
\* is passed over
FetchOne(c, entry, list, clock) ==
    IF ~EndsWith(entry[1], DotMd) THEN [posts |-> list, goes_on |-> TRUE]
    ELSE IF c[entry[2]].health = "ok"
         THEN [posts |-> Append(list, Parse(LoadedFile(c[entry[2]]), entry[1], clock)),
               goes_on |-> TRUE]
         ELSE [posts |-> list, goes_on |-> TRUE]

BuildFetch ==
    /\ bpc = "fetch"
    /\ fi <= Len(files)
    /\ LET step == FetchOne(content, files[fi], posts, builds)
       IN  /\ posts' = step.posts
           /\ fi' = IF step.goes_on THEN fi + 1 ELSE Len(files) + 1
    /\ downloads' = IF EndsWith(files[fi][1], DotMd)
                    THEN Append(downloads, files[fi][2]) ELSE downloads
    /\ UNCHANGED <<listed, content, domain, state_file, state, deps_ok, builds, bpc, files, pi,
                   uploads, notBuild>>

\* the order of two datetimes
Later(d, e) ==
    \/ d[1] > e[1]
    \/ d[1] = e[1] /\ d[2] > e[2]
    \/ d[1] = e[1] /\ d[2] = e[2] /\ d[3] > e[3]

\* a sort that leaves the list in the order of the listing
SortKeepsOrder(list) == list

\* list.sort(key=date, reverse=True): stable, latest first
RECURSIVE SortByDate(_)
InsertByDate(sorted, post) ==
    LET before == {i \in 1..Len(sorted) : Later(post.date, sorted[i].date)}
        at == IF before = {} THEN Len(sorted) + 1 ELSE SetMin(before)
    IN  SubSeq(sorted, 1, at - 1) \o <<post>> \o SubSeq(sorted, at, Len(sorted))
SortByDate(list) ==
    IF list = <<>> THEN <<>>
    ELSE InsertByDate(SortByDate(SubSeq(list, 1, Len(list) - 1)), list[Len(list)])

\* a build that goes on to the index with no post
BuildSortGoesOn ==
    /\ bpc = "fetch"
    /\ fi > Len(files)
    /\ bpc' = "index"
    /\ posts' = SortByDate(posts)
    /\ UNCHANGED <<listed, content, domain, state_file, state, deps_ok, builds, files, fi,
                   downloads, pi, uploads, notBuild>>

\* main.py 536-540
BuildSort ==
    /\ bpc = "fetch"
    /\ fi > Len(files)
    /\ IF posts = <<>>
       THEN /\ bpc' = "returned"
            /\ UNCHANGED posts
       ELSE /\ bpc' = "index"
            /\ posts' = SortByDate(posts)
    /\ UNCHANGED <<listed, content, domain, state_file, state, deps_ok, builds, files, fi,
                   downloads, pi,
                   uploads, notBuild>>

\* what deploy_site can do (github_service.py 63-95): create_file returns
\* True ("ok"), returns False after an answer other than 200 / 201
\* ("rejected"), or raises what the transport raised ("exception")
DeployOutcomes == {"ok", "rejected", "exception"}

\* main.py 543-548: deploy_file raises when deploy_site raises; what
\* deploy_site returns is dropped
DeployFile(outcome) == outcome = "exception"

Slugs(list) == [i \in 1..Len(list) |-> list[i].slug]
\* main.py 545: an upload of the build is a PUT to the production branch
Upload(path, outcome, list) ==
    [path |-> path, outcome |-> outcome, lists |-> Slugs(list), body |-> <<>>,
     branch |-> Resolve(prod_branch)]
\* the upload of a generated document: body is its elements in document order
SeoUpload(path, outcome, list, elements) ==
    [path |-> path, outcome |-> outcome, lists |-> Slugs(list), body |-> elements,
     branch |-> Resolve(prod_branch)]

\* main.py 298-301
SaveState(st, clock) == [st EXCEPT !.last_build = clock]
Written(st) ==
    [exists |-> TRUE, processed_files |-> st.processed_files, last_build |-> st.last_build]

\* an index step that saves the state also when the build returns early
BuildIndexSaves(outcome) ==
    /\ bpc = "index"
    /\ outcome \in DeployOutcomes
    /\ uploads' = Append(uploads, Upload(<<"index.html">>, outcome, posts))
    /\ bpc' = IF DeployFile(outcome) THEN "returned" ELSE "posts"
    /\ pi' = 1
    /\ state' = SaveState(state, builds)
    /\ state_file' = Written(SaveState(state, builds))
    /\ UNCHANGED <<listed, content, domain, deps_ok, builds, files, fi, downloads, posts,
                   notBuild>>

\* main.py 550-557: the index is rendered with the post list and uploaded
BuildIndex(outcome) ==
    /\ bpc = "index"
    /\ outcome \in DeployOutcomes
    /\ uploads' = Append(uploads, Upload(<<"index.html">>, outcome, posts))
    /\ bpc' = IF DeployFile(outcome) THEN "returned" ELSE "posts"
    /\ pi' = 1
    /\ UNCHANGED <<listed, content, domain, state_file, state, deps_ok, builds, files, fi,
                   downloads, posts,
                   notBuild>>

\* main.py 563-564: the path of a post's page
PostPath(post, with_domain) ==
    IF with_domain
    THEN <<NameOf(YearNames, post.date[1]), "/", NameOf(MonthNames, post.date[2]), "/">>
             \o post.slug
    ELSE post.slug

\* a post page whose failed upload takes back what the build uploaded before
BuildPostRollsBack(outcome) ==
    /\ bpc = "posts"
    /\ pi <= Len(posts)
    /\ outcome \in DeployOutcomes
    /\ IF DeployFile(outcome)
       THEN bpc' = "returned" /\ uploads' = <<>> /\ UNCHANGED pi
       ELSE /\ pi' = pi + 1
            /\ bpc' = IF pi = Len(posts) THEN "sitemap" ELSE "posts"
            /\ uploads' = Append(uploads,
                                 Upload(PostPath(posts[pi], domain), outcome, <<posts[pi]>>))
    /\ UNCHANGED <<listed, content, domain, state_file, state, deps_ok, builds, files, fi,
                   downloads, posts,
                   notBuild>>

\* main.py 560-570: one post page is rendered and uploaded
BuildPost(outcome) ==
    /\ bpc = "posts"
    /\ pi <= Len(posts)
    /\ outcome \in DeployOutcomes
    /\ uploads' = Append(uploads, Upload(PostPath(posts[pi], domain), outcome, <<posts[pi]>>))
    /\ IF DeployFile(outcome)
       THEN bpc' = "returned" /\ UNCHANGED pi
       ELSE pi' = pi + 1 /\
            bpc' = IF pi = Len(posts) THEN "sitemap" ELSE "posts"
    /\ UNCHANGED <<listed, content, domain, state_file, state, deps_ok, builds, files, fi,
                   downloads, posts,
                   notBuild>>

\* main.py 576
BaseUrl(with_domain) == IF with_domain THEN <<"https://", "d", "/">> ELSE <<>>

\* main.py 104, 129: f"{base_url}{post['date'].strftime('%Y/%m')}/{post['slug']}"
PostUrl(post, base_url) ==
    IF base_url # <<>>
    THEN base_url \o <<NameOf(YearNames, post.date[1]), "/", NameOf(MonthNames, post.date[2]),
                       "/">> \o post.slug
    ELSE post.slug

\* a sitemap that leaves the home page out
GenerateSitemapNoHome(list, base_url, clock) ==
    [i \in 1..Len(list) |->
        [loc |-> PostUrl(list[i], base_url), lastmod |-> IsoFormat(list[i].date)]]

\* main.py 92-114: the url elements of the sitemap: the home page, then one
\* per post of the list
GenerateSitemap(list, base_url, clock) ==
    <<[loc |-> base_url, lastmod |-> IsoFormat(NowAt(clock))]>> \o
    [i \in 1..Len(list) |->
        [loc |-> PostUrl(list[i], base_url), lastmod |-> IsoFormat(list[i].date)]]

\* main.py 132: re.sub on a summary that is not a str raises
RssRaises(list) == \E i \in 1..Len(list) : list[i].summary.t # "str"

\* main.py 132: re.sub('<[^<]+?>', '', summary): every "<", one or more
\* characters other than "<" and the nearest ">" after them are removed
RECURSIVE StripTags(_)
StripTags(s) ==
    IF s = <<>> THEN <<>>
    ELSE IF Head(s) = "<"
         THEN LET close == {i \in 3..Len(s) : s[i] = ">"}
              IN  IF close = {} \/ \E i \in 2..(SetMin(close) - 1) : s[i] = "<"
                  THEN <<Head(s)>> \o StripTags(Tail(s))
                  ELSE StripTags(SubSeq(s, SetMin(close) + 1, Len(s)))
         ELSE <<Head(s)>> \o StripTags(Tail(s))

\* main.py 117-139: the item elements of the feed, one per post of the list
GenerateRss(list, base_url) ==
    [i \in 1..Len(list) |->
        [title |-> list[i].title.v,
         link |-> PostUrl(list[i], base_url),
         description |-> Take(StripTags(list[i].summary.v), SummaryLen)]]

\* core/seo.py 6-32: the url elements of generate_sitemap
SeoBaseUrl == <<"https://p4blo4p.github.io/python-github-blogs/">>
SeoPostUrl(post) == SeoBaseUrl \o <<"blog/">> \o post.slug \o DotHtml
SeoGenerateSitemap(list) ==
    <<[loc |-> SeoBaseUrl]>> \o [i \in 1..Len(list) |-> [loc |-> SeoPostUrl(list[i])]]
\* core/seo.py 34-55: the item elements of generate_rss
SeoGenerateRss(list) ==
    [i \in 1..Len(list) |-> [title |-> list[i].title.v, link |-> SeoPostUrl(list[i])]]

\* main.py 573-589: the sitemap is generated and uploaded; an exception is
\* logged as a warning, the feed is left out, and the build ends as deployed
BuildSitemap(outcome) ==
    /\ bpc = "sitemap"
    /\ outcome \in DeployOutcomes
    /\ uploads' = Append(uploads, SeoUpload(<<"sitemap.xml">>, outcome, posts,
                                            GenerateSitemap(posts, BaseUrl(domain), builds)))
    /\ IF DeployFile(outcome)
       THEN /\ bpc' = "done"
            /\ state' = SaveState(state, builds)
            /\ state_file' = Written(SaveState(state, builds))
       ELSE /\ bpc' = "rss"
            /\ UNCHANGED <<state, state_file>>
    /\ UNCHANGED <<listed, content, domain, deps_ok, builds, files, fi, downloads, posts, pi,
                   notBuild>>

\* main.py 581-589: the feed is generated and uploaded (generate_rss raises
\* on a summary that is not a str, and then nothing is uploaded), the build
\* reported as deployed and the state saved
BuildRss(outcome) ==
    /\ bpc = "rss"
    /\ outcome \in DeployOutcomes
    /\ uploads' = IF RssRaises(posts) THEN uploads
                  ELSE Append(uploads, SeoUpload(<<"rss.xml">>, outcome, posts,
                                                 GenerateRss(posts, BaseUrl(domain))))
    /\ bpc' = "done"
    /\ state' = SaveState(state, builds)
    /\ state_file' = Written(SaveState(state, builds))
    /\ UNCHANGED <<listed, content, domain, deps_ok, builds, files, fi, downloads, posts, pi,
                   notBuild>>

Next ==
    \/ \E constructed \in BOOLEAN : BuildStart(constructed)
    \/ \E answers \in ListAnswers : BuildList(answers)
    \/ BuildFetch
    \/ BuildSort
    \/ \E outcome \in DeployOutcomes : BuildIndex(outcome)
    \/ \E outcome \in DeployOutcomes : BuildPost(outcome)
    \/ \E outcome \in DeployOutcomes : BuildSitemap(outcome)
    \/ \E outcome \in DeployOutcomes : BuildRss(outcome)

\* ========================================================================
\* AutoBlogEngine.fetch_and_generate (main.py)
\* ========================================================================
LanguageLists == {<<"en">>, <<"en", "es">>}
\* source and production branch of a site: the defaults of main.py 267-268,
\* and a site that keeps its sources on gh-pages and publishes to main
BranchPairs == {<<"main", "gh-pages">>, <<"gh-pages", "main">>}

FetchInit ==
    /\ languages \in LanguageLists
    /\ \E pair \in BranchPairs : source_branch = pair[1] /\ prod_branch = pair[2]
    /\ cycles = 0
    /\ fpc = "idle"
    /\ pending = <<>>
    /\ li = 1
    /\ flog = <<>>

FetchQuiet ==
    /\ languages = <<"en", "es">>
    /\ source_branch = "main"
    /\ prod_branch = "gh-pages"
    /\ cycles = 0
    /\ fpc = "idle"
    /\ pending = <<>>
    /\ li = 1
    /\ flog = <<>>

\* main.py 400-404: a cycle begins; an engine whose clients could not be
\* constructed (self.ai is None) returns at once
FetchStart(constructed) ==
    /\ variant = "main"
    /\ fpc \in {"idle", "done"}
    /\ bpc \in {"idle", "done", "returned"}
    /\ cycles < MaxCycles
    /\ cycles' = cycles + 1
    /\ fpc' = IF constructed THEN "check" ELSE "done"
    /\ pending' = <<>>
    /\ li' = 1
    /\ flog' = <<>>
    /\ UNCHANGED <<languages, source_branch, prod_branch, buildVars, notFetch>>

\* github_service.py 44-56: the names get_files gives for content/<lang>: a
\* listing answered with a status other than 200 gives none
ListNames(c, lang, answer) ==
    IF answer = "ok"
    THEN LET d == DirFiles(<<>>, c, lang, NameOrder) IN [i \in 1..Len(d) |-> d[i][1]]
    ELSE <<>>

\* main.py 316-317: set([f.replace('.md', '') for f in files.keys()])
SlugSet(names) == {ReplaceAll(names[i], DotMd, <<>>) : i \in 1..Len(names)}

\* main.py 311-325: the slugs listed for the source language and not for the
\* target language; nothing when a listing raises
PendingSet(c, src, tgt, answers) ==
    IF answers.src = "exception" \/ answers.tgt = "exception" THEN {}
    ELSE SlugSet(ListNames(c, src, answers.src)) \ SlugSet(ListNames(c, tgt, answers.tgt))

\* list(set): the elements in some order
RECURSIVE SeqOf(_)
SeqOf(S) ==
    IF S = {} THEN <<>>
    ELSE LET x == CHOOSE x \in S : TRUE IN <<x>> \o SeqOf(S \ {x})

ListingAnswers == [src : {"ok", "error", "exception"}, tgt : {"ok", "error", "exception"}]

\* main.py 408-429: with more than one language the pending translations
\* from languages[0] to languages[1] are looked up; any of them can be the
\* first of the list
FetchPending(answers) ==
    /\ fpc = "check"
    /\ LET found == IF Len(languages) > 1
                    THEN PendingSet(content, languages[1], languages[2], answers)
                    ELSE {}
       IN  IF found = {}
           THEN /\ pending' = <<>>
                /\ fpc' = "generate"
           ELSE /\ \E first \in found : pending' = <<first>> \o SeqOf(found \ {first})
                /\ fpc' = "translate"
    /\ UNCHANGED <<languages, source_branch, prod_branch, cycles, li, flog, buildVars, notFetch>>

\* what a file a fetch cycle uploaded is to a build: the front matter is
\* written with an unquoted date (main.py 377, 488) and a quoted summary
WrittenFile == [present |-> TRUE, health |-> "ok", date |-> YamlDate(<<>>),
                summary |-> Str(<<"S">>), sha |-> 2]

\* what happens on the way of _translate_post: the listing of the source
\* directory fails, generate raises, or create_file is reached and returns
\* True, returns False or raises
TranslateOutcomes == {"list_fails", "gen_raises", "put_ok", "put_rejected", "put_exception"}

Did(kind, slug, lang, ret, put, written) ==
    [kind |-> kind, slug |-> slug, lang |-> lang, ret |-> ret, put |-> put,
     written |-> written, branch |-> Resolve(source_branch)]

\* a translation after which the cycle goes on to the new article
FetchTranslateGoesOn(outcome) ==
    /\ fpc = "translate"
    /\ outcome \in TranslateOutcomes
    /\ LET slug == pending[1]
           from == <<languages[1], slug \o DotMd>>
           readable == outcome # "list_fails" /\ Has(content, from)
                          /\ content[from].health = "ok"
       IN  flog' = Append(flog, Did("translate", slug, languages[2], readable, readable, FALSE))
    /\ fpc' = "generate"
    /\ UNCHANGED <<languages, source_branch, prod_branch, cycles, pending, li, buildVars,
                   notFetch>>

\* main.py 416-426, 327-398: the first pending slug is translated: its file
\* is looked up in the listing of the source language, downloaded and
\* parsed, the translation generated and uploaded to the target language on
\* the source branch. What create_file returns is dropped (392-394).
FetchTranslate(outcome) ==
    /\ fpc = "translate"
    /\ outcome \in TranslateOutcomes
    /\ LET slug == pending[1]
           from == <<languages[1], slug \o DotMd>>
           to == <<languages[2], slug \o DotMd>>
           readable == outcome # "list_fails" /\ Has(content, from)
                          /\ content[from].health = "ok"
           put == readable /\ outcome \in {"put_ok", "put_rejected", "put_exception"}
           ret == readable /\ outcome \in {"put_ok", "put_rejected"}
           written == readable /\ outcome = "put_ok"
       IN  /\ content' = IF written THEN [content EXCEPT ![to] = WrittenFile] ELSE content
           /\ flog' = Append(flog, Did("translate", slug, languages[2], ret, put, written))
    /\ fpc' = "done"
    /\ UNCHANGED <<languages, source_branch, prod_branch, cycles, pending, li, buildRest,
                   notFetch>>

\* main.py 429-458: the topic of the new article: from the scraped sources,
\* or from generate, which can raise into the except clause of 506; in
\* autoblog.py 162-165 the headline, from generate, with the except clause
\* of 180
FetchTopic(outcome) ==
    /\ fpc = "generate"
    /\ outcome \in {"ok", "raise"}
    /\ fpc' = IF outcome = "ok" THEN "langs" ELSE "done"
    /\ li' = 1
    /\ UNCHANGED <<languages, source_branch, prod_branch, cycles, pending, flog, buildVars,
                   notFetch>>

\* what happens on the way of one language of the loop of 461-504:
\* _get_existing_titles raises (main.py holds no such method and says in 510
\* that it is kept from the version before), generate raises for the title
\* or for the article, or create_file is reached and returns True, returns
\* False or raises
ArticleOutcomes == {"titles_raise", "title_raise", "article_raise",
                    "put_ok", "put_rejected", "put_exception"}

\* main.py 463: the titles _get_existing_titles gives for a language, in
\* lower case; the method is not among the sources
GetExistingTitles(lang) == {<<"a", " ", "s">>}

\* main.py 466: what generate returns for the title
NewTitles == {<<" ", "A", " ", "s", "'">>, <<"s">>}

\* main.py 469: new_title.lower() in existing_titles
IsDuplicate(new_title, existing_titles) == Lower(new_title) \in existing_titles

\* one language of the new article, as fetch_and_generate went through it
DidArticle(lang, titled, new_title, ret, put, written) ==
    [kind |-> "article", slug |-> <<"c">>, lang |-> lang, ret |-> ret, put |-> put,
     written |-> written, branch |-> Resolve(source_branch), titled |-> titled,
     title |-> new_title]

\* a duplicate title that ends the loop over the languages
FetchArticleBreaks(outcome, answer) ==
    /\ variant = "main"
    /\ fpc = "langs"
    /\ li <= Len(languages)
    /\ outcome \in ArticleOutcomes
    /\ answer \in NewTitles
    /\ LET lang == languages[li]
           titled == outcome \notin {"titles_raise", "title_raise"}
           new_title == IF titled THEN NormalizeTitle(answer) ELSE <<>>
           duplicate == titled /\ IsDuplicate(new_title, GetExistingTitles(lang))
           stops == outcome \in {"titles_raise", "title_raise", "article_raise",
                                 "put_exception"}
           put == ~duplicate /\ outcome \in {"put_ok", "put_rejected", "put_exception"}
       IN  /\ content' = IF put /\ outcome = "put_ok"
                         THEN [content EXCEPT ![<<lang, NameC>>] = WrittenFile]
                         ELSE content
           /\ flog' = Append(flog, DidArticle(lang, titled, new_title, duplicate \/ ~stops,
                                              put, put /\ outcome = "put_ok"))
           /\ fpc' = IF duplicate \/ stops \/ li = Len(languages) THEN "done" ELSE "langs"
    /\ li' = li + 1
    /\ UNCHANGED <<languages, source_branch, prod_branch, cycles, pending, buildRest, notFetch>>

\* main.py 461-508: one language of the new article. The title is stripped
\* and loses its quotes (467); a title that is among the existing ones sends
\* the loop to the next language (469-471); an exception sends the cycle to
\* the except clause of 506. The file of the article is content/<lang>/c.md.
FetchArticle(outcome, answer) ==
    /\ variant = "main"
    /\ fpc = "langs"
    /\ li <= Len(languages)
    /\ outcome \in ArticleOutcomes
    /\ answer \in NewTitles
    /\ LET lang == languages[li]
           titled == outcome \notin {"titles_raise", "title_raise"}
           new_title == IF titled THEN NormalizeTitle(answer) ELSE <<>>
           duplicate == titled /\ IsDuplicate(new_title, GetExistingTitles(lang))
           stops == \/ ~titled
                    \/ ~duplicate /\ outcome \in {"article_raise", "put_exception"}
           put == ~duplicate /\ outcome \in {"put_ok", "put_rejected", "put_exception"}
       IN  /\ content' = IF put /\ outcome = "put_ok"
                         THEN [content EXCEPT ![<<lang, NameC>>] = WrittenFile]
                         ELSE content
           /\ flog' = Append(flog, DidArticle(lang, titled, new_title, ~stops, put,
                                              put /\ outcome = "put_ok"))
           /\ fpc' = IF stops \/ li = Len(languages) THEN "done" ELSE "langs"
    /\ li' = li + 1
    /\ UNCHANGED <<languages, source_branch, prod_branch, cycles, pending, buildRest, notFetch>>

FetchNext ==
    \/ \E constructed \in BOOLEAN : FetchStart(constructed)
    \/ \E answers \in ListingAnswers : FetchPending(answers)
    \/ \E outcome \in TranslateOutcomes : FetchTranslate(outcome)
    \/ \E outcome \in {"ok", "raise"} : FetchTopic(outcome)
    \/ \E outcome \in ArticleOutcomes : \E answer \in NewTitles : FetchArticle(outcome, answer)

\* autoblog.py 157-160: generate_content begins; it has no translations and
\* goes to the headline at once
ContentStart ==
    /\ variant = "autoblog"
    /\ fpc \in {"idle", "done"}
    /\ cycles < MaxCycles
    /\ cycles' = cycles + 1
    /\ fpc' = "generate"
    /\ pending' = <<>>
    /\ li' = 1
    /\ flog' = <<>>
    /\ UNCHANGED <<languages, source_branch, prod_branch, buildVars, notFetch>>

\* what happens on the way of one language of the loop of autoblog.py
\* 168-178: generate raises, or github_api is reached and the PUT is
\* accepted, rejected or fails in requests
ContentOutcomes == {"article_raise", "put_ok", "put_rejected", "put_exception"}

\* one language whose exception leaves generate_content
ContentArticleRaises(outcome) ==
    /\ variant = "autoblog"
    /\ fpc = "langs"
    /\ li <= Len(languages)
    /\ outcome \in ContentOutcomes
    /\ content' = IF outcome = "put_ok"
                  THEN [content EXCEPT ![<<languages[li], NameC>>] = WrittenFile]
                  ELSE content
    /\ flog' = Append(flog, Did("article", <<"c">>, languages[li], outcome # "article_raise",
                                outcome # "article_raise", outcome = "put_ok"))
    /\ fpc' = IF outcome = "article_raise" THEN "raised"
              ELSE IF li = Len(languages) THEN "done" ELSE "langs"
    /\ li' = li + 1
    /\ UNCHANGED <<languages, source_branch, prod_branch, cycles, pending, buildRest, notFetch>>

\* autoblog.py 168-181: one language of generate_content. What generate
\* raises goes to the except clause of 180 and ends the cycle; github_api
\* catches what requests raises and returns None (150-155), and what it
\* returns is not looked at (175), so the loop goes on after every PUT.
ContentArticle(outcome) ==
    /\ variant = "autoblog"
    /\ fpc = "langs"
    /\ li <= Len(languages)
    /\ outcome \in ContentOutcomes
    /\ content' = IF outcome = "put_ok"
                  THEN [content EXCEPT ![<<languages[li], NameC>>] = WrittenFile]
                  ELSE content
    /\ flog' = Append(flog, Did("article", <<"c">>, languages[li], outcome # "article_raise",
                                outcome # "article_raise", outcome = "put_ok"))
    /\ fpc' = IF outcome = "article_raise" \/ li = Len(languages) THEN "done" ELSE "langs"
    /\ li' = li + 1
    /\ UNCHANGED <<languages, source_branch, prod_branch, cycles, pending, buildRest, notFetch>>

\* content generation of both programs
ContentNext ==
    \/ FetchNext
    \/ ContentStart
    \/ \E outcome \in ContentOutcomes : ContentArticle(outcome)

\* a site: fetch cycles and builds, one at a time
SiteNext == FetchNext \/ Next

\* ========================================================================
\* main
\* ========================================================================
SiteOne == <<"A", " ", "s">>
SiteTwo == <<"a", "_", "s">>
SiteThree == <<"b">>
\* the configurations of the model: the names of the sites of config.json
Configs == {<<SiteOne, SiteTwo>>, <<SiteOne, SiteThree>>, <<SiteThree>>}

NoBlog == <<>>
\* the values of --blog: not given, a configured name in another case, a
\* name no site has
BlogArgs == {NoBlog, <<"a", " ", "s">>, <<"z">>}

\* main.py 592-599; autoblog.py 189-193 has --fetch and --build only
ArgsOf(v) ==
    IF v = "main"
    THEN [list : BOOLEAN, fetch : BOOLEAN, build : BOOLEAN, all : BOOLEAN, blog : BlogArgs]
    ELSE [list : {FALSE}, fetch : BOOLEAN, build : BOOLEAN, all : {FALSE}, blog : {NoBlog}]

\* main.py 285, autoblog.py 130
StateFileName(name) ==
    <<".state_">> \o Lower(ReplaceAll(name, <<" ">>, <<"_">>)) \o <<".json">>

\* a selection that gives every site whatever --blog names
GetBlogConfigAll(list, blog_name) == list

\* main.py 252-259: get_blog_config(blog_name): the first site whose name is
\* blog_name in lower case, or ValueError
Matching(list, blog_name) == {i \in 1..Len(list) : Lower(list[i]) = Lower(blog_name)}
GetBlogConfig(list, blog_name) ==
    IF blog_name = NoBlog THEN list
    ELSE IF Matching(list, blog_name) = {} THEN <<>>
    ELSE <<list[SetMin(Matching(list, blog_name))]>>

\* main.py 626, 628; autoblog.py 200, 202
Wants(v, a, phase) ==
    IF phase = "fetch" THEN a.fetch \/ (v = "main" /\ a.all)
    ELSE a.build \/ (v = "main" /\ a.all)

Event(site, what, ev, file) == [site |-> site, what |-> what, ev |-> ev, file |-> file]

MainInit ==
    /\ args \in ArgsOf(variant)
    /\ blogs \in Configs
    /\ blog_configs = <<>>
    /\ si = 1
    /\ mpc = "start"
    /\ log = <<>>

\* a run that is in the fetch phase of its only site
MainQuiet ==
    /\ args = [list |-> FALSE, fetch |-> TRUE, build |-> FALSE, all |-> FALSE, blog |-> NoBlog]
    /\ blogs = <<SiteThree>>
    /\ blog_configs = <<SiteThree>>
    /\ si = 1
    /\ mpc = "fetching"
    /\ log = <<Event(1, "load", "end", StateFileName(SiteThree)),
               Event(1, "fetch", "begin", <<>>)>>

\* main.py 607-621: --list, a --blog that matches no site and a command line
\* with no phase end the run; autoblog.py 198 goes over every site
MainStart ==
    /\ mpc = "start"
    /\ IF variant = "main"
       THEN IF args.list THEN mpc' = "end" /\ UNCHANGED blog_configs
            ELSE IF args.blog # NoBlog /\ Matching(blogs, args.blog) = {}
                 THEN mpc' = "end" /\ UNCHANGED blog_configs
            ELSE IF ~args.fetch /\ ~args.build /\ ~args.all
                 THEN mpc' = "end" /\ blog_configs' = GetBlogConfig(blogs, args.blog)
            ELSE mpc' = "site" /\ blog_configs' = GetBlogConfig(blogs, args.blog)
       ELSE mpc' = "site" /\ blog_configs' = blogs
    /\ UNCHANGED <<args, blogs, si, log, notMain>>

\* main.py 624, 263-290; autoblog.py 199, 114-131: the engine of the site is
\* constructed and its state file loaded; the constructor is outside the try
\* of main.py, so what it raises (json.load on a broken state file; in
\* autoblog.py also MultiAIClient with no provider) ends the run
MainEngine(outcome) ==
    /\ mpc = "site"
    /\ outcome \in {"ok", "raise"}
    /\ log' = Append(log, Event(si, "load", "end", StateFileName(blog_configs[si])))
    /\ mpc' = IF outcome = "ok" THEN "engine" ELSE "crashed"
    /\ UNCHANGED <<args, blogs, blog_configs, si, notMain>>

\* a fetch phase that is started as a task of its own and not awaited
MainFetchBeginDetached ==
    /\ mpc = "engine"
    /\ IF Wants(variant, args, "fetch")
       THEN log' = Append(log, Event(si, "fetch", "begin", <<>>))
       ELSE UNCHANGED log
    /\ mpc' = "fetched"
    /\ UNCHANGED <<args, blogs, blog_configs, si, notMain>>

\* main.py 626-627, autoblog.py 200-201
MainFetchBegin ==
    /\ mpc = "engine"
    /\ IF Wants(variant, args, "fetch")
       THEN /\ mpc' = "fetching"
            /\ log' = Append(log, Event(si, "fetch", "begin", <<>>))
       ELSE /\ mpc' = "fetched"
            /\ UNCHANGED log
    /\ UNCHANGED <<args, blogs, blog_configs, si, notMain>>

\* what the site's phase can do to main: fetch_and_generate returns, or
\* raises outside its try blocks (main.py 409: len() of a "languages" that
\* is null in config.json); generate_content of autoblog.py has all of its
\* body in one try
FetchOutcomes(v) == IF v = "main" THEN {"return", "raise"} ELSE {"return"}

\* the await of main.py 627 / autoblog.py 201 is over. main.py 630-632
\* catches what the phase raised and goes to the next site.
MainFetchEnd(outcome) ==
    /\ mpc = "fetching"
    /\ gpc \notin {"loop", "await"}
    /\ outcome \in FetchOutcomes(variant)
    /\ log' = Append(log, Event(si, "fetch", "end", <<>>))
    /\ mpc' = IF outcome = "return" THEN "fetched" ELSE "next"
    /\ UNCHANGED <<args, blogs, blog_configs, si, notMain>>

\* main.py 628-629, autoblog.py 202-203
MainBuildBegin ==
    /\ mpc = "fetched"
    /\ IF Wants(variant, args, "build")
       THEN /\ mpc' = "building"
            /\ log' = Append(log, Event(si, "build", "begin", <<>>))
       ELSE /\ mpc' = "next"
            /\ UNCHANGED log
    /\ UNCHANGED <<args, blogs, blog_configs, si, notMain>>

\* what build_site can do to main: return early, reach its end and save the
\* state, or raise (main.py 589: _save_state is outside the try blocks)
BuildOutcomes == {"return", "saved", "raise"}

\* build_site is over. main.py 630-632 catches what it raised; autoblog.py
\* has no try and the run ends with the exception.
MainBuildEnd(outcome) ==
    /\ mpc = "building"
    /\ outcome \in BuildOutcomes
    /\ log' = log \o (IF outcome = "saved"
                      THEN <<Event(si, "save", "end", StateFileName(blog_configs[si]))>>
                      ELSE <<>>)
                  \o <<Event(si, "build", "end", <<>>)>>
    /\ mpc' = IF outcome = "raise" /\ variant = "autoblog" THEN "crashed" ELSE "next"
    /\ UNCHANGED <<args, blogs, blog_configs, si, notMain>>

\* main.py 623, autoblog.py 198: the next iteration of the loop over sites
MainNextSite ==
    /\ mpc = "next"
    /\ si' = si + 1
    /\ mpc' = IF si = Len(blog_configs) THEN "end" ELSE "site"
    /\ UNCHANGED <<args, blogs, blog_configs, log, notMain>>

MainNext ==
    \/ MainStart
    \/ \E outcome \in {"ok", "raise"} : MainEngine(outcome)
    \/ MainFetchBegin
    \/ \E outcome \in {"return", "raise"} : MainFetchEnd(outcome)
    \/ MainBuildBegin
    \/ \E outcome \in BuildOutcomes : MainBuildEnd(outcome)
    \/ MainNextSite
    \/ GenNext

\* ========================================================================
\* Specifications
\* ========================================================================
Init == BuildInit /\ GenQuiet /\ GitQuiet /\ SlugQuiet /\ ParseQuiet /\ FetchQuiet /\ MainQuiet
Spec == Init /\ [][Next]_vars

InitGen == BuildQuiet /\ ParseQuiet /\ GenInit /\ GitQuiet /\ SlugQuiet /\ FetchQuiet /\ MainQuiet
SpecGen == InitGen /\ [][GenNext]_vars

InitGit == BuildQuiet /\ ParseQuiet /\ GitInit /\ GenQuiet /\ SlugQuiet /\ FetchQuiet /\ MainQuiet
SpecGit == InitGit /\ [][GitNext]_vars

InitSlug == BuildQuiet /\ ParseQuiet /\ SlugInit /\ GenQuiet /\ GitQuiet /\ FetchQuiet /\ MainQuiet
SpecSlug == InitSlug /\ [][SlugNext]_vars

InitParse == BuildQuiet /\ ParseInit /\ GenQuiet /\ GitQuiet /\ SlugQuiet /\ FetchQuiet /\ MainQuiet
SpecParse == InitParse /\ [][ParseNext]_vars

InitMain == BuildQuiet /\ ParseQuiet /\ GenInit /\ GitQuiet /\ SlugQuiet /\ FetchQuiet /\ MainInit
SpecMain == InitMain /\ [][MainNext]_vars

InitFetch ==
    BuildInit /\ ParseQuiet /\ GenQuiet /\ GitQuiet /\ SlugQuiet /\ FetchInit /\ MainQuiet
SpecFetch == InitFetch /\ [][FetchNext]_vars

\* the engine of main.py or of autoblog.py, with its clients, before a cycle
InitContent ==
    /\ BuildInit /\ ParseQuiet /\ GitQuiet /\ SlugQuiet /\ FetchInit /\ MainQuiet
    /\ Present(content) \subseteq {<<"en", NameA>>, <<"en", NameB>>}
    /\ \A id \in Present(content) : content[id].summary = Missing
    /\ ~domain
    /\ variant \in {"main", "autoblog"}
    /\ clients = Providers
    /\ priority = <<>>
    /\ idx = 1
    /\ calls = <<>>
    /\ gpc = "idle"
    /\ result = NoneText
    /\ last_error = "None"
    /\ inflight = <<>>
SpecContent == InitContent /\ [][ContentNext]_vars

\* a site of two languages, with the branches of main.py 267-268, that starts
\* empty or with one article, in a repository whose default branch is main
\* or gh-pages
InitSite ==
    /\ BuildInit
    /\ Present(content) \subseteq {<<"en", NameA>>}
    /\ \A id \in Present(content) :
          content[id].health = "ok" /\ content[id].summary = Missing
             /\ content[id].date = Str(<<"2024", "-", "05", "-", "01">>)
    /\ ~domain
    /\ ParseQuiet /\ GenQuiet /\ SlugQuiet /\ FetchInit /\ MainQuiet
    /\ Len(languages) = 2
    /\ source_branch = "main"
    /\ default_branch \in Branches
    /\ store = [k \in Branches \X Paths |-> Absent]
    /\ next_sha = 2
    /\ cf = CfIdle
SpecSite == InitSite /\ [][SiteNext]_vars


\* ---------------------------------------------------------------- claims
\* the configured providers of the request, in the request's order
ConfiguredOrder == SeqFilter(priority, clients)
CallsFollowOrder ==
    /\ Len(calls) <= Len(ConfiguredOrder)
    /\ \A i \in 1..Len(calls) : calls[i].provider = ConfiguredOrder[i]
LastCall == calls[Len(calls)]

\* C1 as stated: the value returned is the output of the first provider whose
\* call did not raise; a provider is called only after every earlier one was
\* called and raised; no provider is called after one succeeded.
C1_Original ==
    /\ CallsFollowOrder
    /\ \A i \in 1..(Len(calls) - 1) : calls[i].outcome.kind = "raise"
    /\ (gpc = "loop" => \A i \in 1..Len(calls) : calls[i].outcome.kind = "raise")
    /\ (gpc = "returned" =>
          /\ calls # <<>>
          /\ LastCall.outcome.kind # "raise"
          /\ result = LastCall.outcome)

\* C1 amended: MultiAIProvider.generate returns the output of the first
\* provider whose call did not raise; MultiAIClient.generate returns that
\* output with leading and trailing whitespace stripped, and treats an answer
\* without text like a raised call. Providers are called in priority order,
\* each only after every earlier one failed, and none after a success.
FailedFor(v, o) == o.kind = "raise" \/ (v = "autoblog" /\ o.kind = "none")
C1_FallbackOrder ==
    /\ CallsFollowOrder
    /\ \A i \in 1..(Len(calls) - 1) : FailedFor(variant, calls[i].outcome)
    /\ (gpc = "loop" => \A i \in 1..Len(calls) : FailedFor(variant, calls[i].outcome))
    /\ (gpc = "returned" =>
          /\ calls # <<>>
          /\ ~FailedFor(variant, LastCall.outcome)
          /\ result = IF variant = "main" THEN LastCall.outcome
                      ELSE TextOf(Strip(LastCall.outcome.text)))

\* two providers failed and the third one's answer was returned
C1_Witness ==
    /\ gpc = "returned"
    /\ Len(calls) = 3
    /\ result.kind = "text"

\* C2: when every configured provider's call raises, or no client is
\* configured, generate raises instead of returning, and each configured
\* provider was called exactly once for the request.
C2_AllFailRaises ==
    /\ (gpc = "returned" => \E i \in 1..Len(calls) : calls[i].outcome.kind # "raise")
    /\ (gpc = "raised" =>
          /\ Len(calls) = Cardinality(clients)
          /\ \A p \in clients :
                Cardinality({i \in 1..Len(calls) : calls[i].provider = p}) = 1)
    /\ (gpc = "loop" /\ idx > Len(priority) => ENABLED GenExhaust)

\* all three configured providers raised and generate raised
C2_Witness ==
    /\ gpc = "raised"
    /\ Cardinality(clients) = 3
    /\ Len(calls) = 3
    /\ \A i \in 1..3 : calls[i].outcome.kind = "raise"

\* C3 as stated: the PUT of create_file carries the sha of the file the
\* preceding GET found at that path and branch, and no sha when the path is
\* not there; a file that exists is never PUT without its sha.
C3_Original ==
    cf.put = "sent" =>
        /\ (cf.held.kind = "file" => cf.put_sha = cf.held.sha)
        /\ (cf.held.kind = "absent" => cf.put_sha = 0)

\* C8: slug derivation is idempotent: the slug of a slug is that slug, for
\* the derivation of fetch_and_generate and for the one of generate_content.
C8_SlugIdempotent ==
    /\ (sl.by = "main" => CleanSlug(sl.slug) = sl.slug)
    /\ (sl.by = "autoblog" => AutoblogSlug(sl.slug) = sl.slug)

\* a headline with upper case, whitespace and punctuation was slugged into
\* something else than itself
C8_Witness ==
    /\ sl.by = "autoblog"
    /\ sl.slug # title
    /\ sl.slug # <<>>
    /\ \E i \in 1..Len(title) : title[i] \in {"s", "-", "!", " "}

\* C9 as stated: the slug of the upload path is a non-empty string of the
\* characters a-z, 0-9 and "-".
C9_Original ==
    (sl.by # "none" /\ Strip(title) # <<>>) =>
        /\ sl.slug # <<>>
        /\ SeqRange(sl.slug) \subseteq SlugChars

\* C10: parse returns a post whenever the document loads: a missing title
\* is the filename without ".md", a missing or non-ISO-string date is the
\* current time, a missing summary is the first 200 characters of the HTML
\* followed by "...", missing tags are the empty list; a title, summary and
\* tags that are present come back unchanged and an ISO date string comes
\* back as that date.
C10_ParseDefaults ==
    /\ (pp.pc = "raised" => raw.loads = "raise")
    /\ (pp.pc = "parsed" =>
          LET m == raw.metadata
              post == pp.post
              html == IF raw.content = <<>> THEN <<>>
                      ELSE <<"<", "p", ">">> \o raw.content \o <<"<", "/", "p", ">">>
          IN  /\ post.title = IF m.title = Missing
                              THEN Str(ReplaceAll(filename, DotMd, <<>>)) ELSE m.title
              /\ post.tags = IF m.tags = Missing THEN List(<<>>) ELSE m.tags
              /\ post.summary =
                   IF m.summary = Missing
                   THEN Str([i \in 1..(IF Len(html) < 200 THEN Len(html) + 3 ELSE 203) |->
                               IF i <= Len(html) /\ i <= 200 THEN html[i] ELSE "."])
                   ELSE m.summary
              /\ (m.date = Str(<<"2024", "-", "05", "-", "01">>) => post.date = <<2024, 5, 1>>)
              /\ (m.date = Str(<<"2025", "-", "12", "-", "09">>) => post.date = <<2025, 12, 9>>)
              /\ (m.date \notin {Str(<<"2024", "-", "05", "-", "01">>),
                                 Str(<<"2025", "-", "12", "-", "09">>)}
                    => post.date = <<2026, 11, now>>))

\* a document with no front matter fields and more than 200 characters of
\* HTML was parsed
C10_Witness ==
    /\ pp.pc = "parsed"
    /\ raw.metadata = [title |-> Missing, date |-> Missing, summary |-> Missing,
                       tags |-> Missing]
    /\ Len(pp.post.content) > SummaryLen
    /\ Len(pp.post.summary.v) = SummaryLen + 3

\* the posts a listed prefix of the dict must give: one per name that ends
\* in .md and whose file downloads and loads, in the order of the dict
RECURSIVE GoodSlugs(_)
GoodSlugs(list) ==
    IF list = <<>> THEN <<>>
    ELSE GoodSlugs(SubSeq(list, 1, Len(list) - 1)) \o
         (LET e == list[Len(list)]
          IN  IF EndsWith(e[1], DotMd) /\ content[e[2]].health = "ok"
              THEN <<SubSeq(e[1], 1, Len(e[1]) - 3) \o DotHtml>> ELSE <<>>)

\* C4 as stated: a file whose version identifier is the one the state
\* records is not downloaded again, and a file that is processed has its
\* identifier recorded in the state.
C4_Original ==
    /\ \A i \in 1..Len(downloads) :
          content[downloads[i]].sha \notin SeqRange(state.processed_files)
    /\ (bpc = "done" =>
          \A i \in 1..Len(downloads) :
              content[downloads[i]].health = "ok" =>
                  content[downloads[i]].sha \in SeqRange(state.processed_files))

\* C5 as stated: after an upload that failed (the PUT raised or was answered
\* with another status than 200 / 201) nothing more is uploaded in the build,
\* the build is not reported as deployed and the state is not saved.
C5_Original ==
    /\ \A i \in 1..Len(uploads) : \A j \in 1..Len(uploads) :
          i < j => uploads[i].outcome = "ok"
    /\ (bpc = "done" => \A i \in 1..Len(uploads) : uploads[i].outcome = "ok")

\* C6: a file whose download or parse fails is left out of the post list
\* and the loop goes on: after each file the post list holds exactly the
\* files before it that downloaded and loaded, and a build that ends before
\* its first upload with files listed had no such file.
C6_FailedFileSkipped ==
    /\ (bpc = "fetch" => Slugs(posts) = GoodSlugs(SubSeq(files, 1, fi - 1)))
    /\ (bpc \in {"index", "posts", "sitemap", "rss", "done"} =>
          /\ Len(posts) = Len(GoodSlugs(files))
          /\ SeqRange(Slugs(posts)) = SeqRange(GoodSlugs(files)))
    /\ (bpc = "returned" /\ files # <<>> /\ uploads = <<>> => GoodSlugs(files) = <<>>)

\* the first file of the dict failed and the second one became the post list
C6_Witness ==
    /\ bpc = "index"
    /\ Len(files) = 2
    /\ EndsWith(files[1][1], DotMd)
    /\ content[files[1][2]].health # "ok"
    /\ Len(posts) = 1
    /\ posts[1].slug = <<"b">> \o DotHtml

\* C7 as stated: in a build whose uploads all succeed, every Markdown file
\* under content/ that downloads and loads gives exactly one post and one
\* uploaded page; no two files become one post.
GoodFiles ==
    {id \in Present(content) : EndsWith(id[2], DotMd) /\ content[id].health = "ok"}
PageUploads == {i \in 1..Len(uploads) : EndsWith(uploads[i].path, DotHtml)
                                         /\ uploads[i].path # <<"index.html">>}
C7_Original ==
    (/\ bpc = "done"
     /\ \A i \in 1..Len(uploads) : uploads[i].outcome = "ok"
     /\ \A id \in Present(content) : \E i \in 1..Len(files) : files[i][1] = id[2])
    => /\ Len(posts) = Cardinality(GoodFiles)
       /\ Cardinality(PageUploads) = Cardinality(GoodFiles)

\* the uploads of the build that carry a generated document
SitemapUploads == {i \in 1..Len(uploads) : uploads[i].path = <<"sitemap.xml">>}
RssUploads == {i \in 1..Len(uploads) : uploads[i].path = <<"rss.xml">>}

\* C11: the sitemap of a build holds one url for the home page and then one
\* url per post of the post list, and the feed one item per post of the
\* list, each in the order of the list, no post missing and none twice; the
\* generators of core/seo.py build the same elements from the list.
C11_SeoPerPost ==
    /\ \A u \in SitemapUploads :
          LET urls == uploads[u].body
          IN  /\ Len(urls) = 1 + Len(posts)
              /\ urls[1].loc = BaseUrl(domain)
              /\ \A k \in 1..Len(posts) :
                    /\ EndsWith(urls[k + 1].loc, posts[k].slug)
                    /\ urls[k + 1].lastmod = IsoFormat(posts[k].date)
              /\ \A j \in 1..Len(posts) : \A k \in 1..Len(posts) :
                    j # k => urls[j + 1].loc # urls[k + 1].loc
    /\ \A u \in RssUploads :
          LET items == uploads[u].body
          IN  /\ Len(items) = Len(posts)
              /\ \A k \in 1..Len(posts) :
                    /\ EndsWith(items[k].link, posts[k].slug)
                    /\ items[k].title = posts[k].title.v
              /\ \A j \in 1..Len(posts) : \A k \in 1..Len(posts) :
                    j # k => items[j].link # items[k].link
    /\ (bpc \in {"sitemap", "rss", "done"} =>
          /\ Len(SeoGenerateSitemap(posts)) = 1 + Len(posts)
          /\ Len(SeoGenerateRss(posts)) = Len(posts)
          /\ \A k \in 1..Len(posts) :
                /\ SeoGenerateSitemap(posts)[k + 1].loc = SeoPostUrl(posts[k])
                /\ SeoGenerateRss(posts)[k].link = SeoPostUrl(posts[k]))

\* a build of two posts uploaded its sitemap and its feed
C11_Witness ==
    /\ bpc = "done"
    /\ Len(posts) = 2
    /\ \E u \in SitemapUploads : Len(uploads[u].body) = 3 /\ uploads[u].outcome = "ok"
    /\ \E u \in RssUploads : Len(uploads[u].body) = 2 /\ uploads[u].outcome = "ok"

\* what the production branch holds at a path after the uploads of the
\* build: the post list of the last upload there that was accepted
Accepted(path) == {i \in 1..Len(uploads) : uploads[i].path = path /\ uploads[i].outcome = "ok"}
PageAccepted(slug) ==
    \E i \in 1..Len(uploads) :
        /\ uploads[i].path # <<"index.html">>
        /\ uploads[i].outcome = "ok"
        /\ uploads[i].lists = <<slug>>

\* C12: nothing a build uploaded is taken back when the build aborts later:
\* within one build every step keeps the uploads made so far (the only
\* requests of build_site to the production branch are these PUTs), so a
\* build that returns after a failed page upload leaves the index it
\* uploaded in place.
C12_NoRollback ==
    [][builds' = builds =>
          /\ Len(uploads') >= Len(uploads)
          /\ SubSeq(uploads', 1, Len(uploads)) = uploads]_vars

\* build_site has returned, the production index.html lists a post and that
\* post's page was not uploaded in the build
C12_Witness ==
    /\ bpc = "returned"
    /\ Accepted(<<"index.html">>) # {}
    /\ \E k \in 1..Len(posts) :
          /\ \E i \in Accepted(<<"index.html">>) :
                \E j \in 1..Len(uploads[i].lists) : uploads[i].lists[j] = posts[k].slug
          /\ ~PageAccepted(posts[k].slug)

\* the phases main began and that are not over
Ended(i) ==
    \E j \in (i + 1)..Len(log) :
        log[j].site = log[i].site /\ log[j].what = log[i].what /\ log[j].ev = "end"
OpenPhases == {i \in 1..Len(log) : log[i].ev = "begin" /\ ~Ended(i)}

\* C13: at most one provider call is in flight at any time, with the worker
\* threads of main.py as with the calls made in the coroutine: a call begins
\* only when the one before it is over; and at most one phase of one site is
\* running: a site's fetch and build are over before anything of the next
\* site begins.
C13_OneCallAtATime ==
    /\ Len(inflight) <= 1
    /\ (inflight # <<>> => gpc = "await" /\ mpc = "fetching")
    /\ Cardinality(OpenPhases) <= 1
    /\ \A i \in OpenPhases : i = Len(log) /\ log[i].site = si
    /\ \A i \in 1..Len(log) : \A j \in 1..Len(log) : i < j => log[i].site <= log[j].site

\* the worker thread of the second provider is running, in the fetch phase
\* of the second site, after the first site's fetch and build
C13_Witness ==
    /\ variant = "main"
    /\ inflight = <<"openai">>
    /\ Len(calls) = 1
    /\ si = 2
    /\ \E i \in 1..Len(log) : log[i] = Event(1, "build", "end", <<>>)

\* C16: a site whose fetch and build are both requested has its fetch phase
\* over before its build phase begins, and the sites are gone through one
\* after another in the order of the configuration list.
C16_FetchBeforeBuild ==
    /\ \A j \in 1..Len(log) :
          (log[j].what = "build" /\ log[j].ev = "begin"
             /\ Wants(variant, args, "fetch")) =>
                \E i \in 1..(j - 1) :
                    log[i] = Event(log[j].site, "fetch", "end", <<>>)
    /\ \A i \in 1..Len(log) : \A j \in 1..Len(log) : i <= j => log[i].site <= log[j].site
    /\ \A i \in 1..Len(log) : log[i].site \in 1..si
    /\ (mpc \notin {"start", "end"} /\ args.blog = NoBlog => blog_configs = blogs)
    /\ \A k \in 1..(si - 1) : k <= Len(blog_configs) =>
          \E i \in 1..Len(log) : log[i].site = k

\* both phases of both sites of the configuration ran, fetch before build
C16_Witness ==
    /\ mpc = "end"
    /\ Len(blog_configs) = 2
    /\ \A k \in 1..2 :
          \E i \in 1..Len(log) : \E j \in 1..Len(log) :
              /\ i < j
              /\ log[i] = Event(k, "fetch", "end", <<>>)
              /\ log[j] = Event(k, "build", "begin", <<>>)

\* the slugs that are pending by what the source branch holds: <slug>.md is
\* under content/<languages[0]> and not under content/<languages[1]>
TruePending ==
    {SubSeq(id[2], 1, Len(id[2]) - 3) :
        id \in {f \in Present(content) :
                  /\ f[1] = languages[1]
                  /\ EndsWith(f[2], DotMd)
                  /\ ~Has(content, <<languages[2], f[2]>>)}}
Wrote == \E i \in 1..Len(flog) : flog[i].written

C20_Original ==
    /\ (fpc = "translate" => SeqRange(pending) = TruePending)
    /\ (fpc = "done" /\ pending # <<>> /\ flog[1].written =>
          TruePending = SeqRange(pending) \ {pending[1]})

\* the build uploaded its index and the page of every post with no exception
ReachedEnd ==
    /\ uploads # <<>>
    /\ uploads[1].path = <<"index.html">>
    /\ \A k \in 1..Len(posts) :
          \E i \in 2..Len(uploads) : uploads[i].path = PostPath(posts[k], domain)
    /\ \A i \in 1..Len(uploads) :
          uploads[i].outcome = "exception" =>
              uploads[i].path \in {<<"sitemap.xml">>, <<"rss.xml">>}

\* C14: the state file changes only in the step that ends a build_site run
\* which uploaded its index and every post page without an exception, and
\* then it holds the state with last_build set to the time of that build; a
\* run that returns early leaves the file as it was loaded, and no step of a
\* fetch cycle changes it.
C14_StateSavedAtEnd ==
    /\ [](bpc = "done" =>
            /\ ReachedEnd
            /\ state.last_build = builds
            /\ state_file = Written(state))
    /\ [](bpc = "returned" => state = LoadState(state_file) /\ state.last_build < builds)
    /\ [][state_file' # state_file =>
            /\ bpc \in {"sitemap", "rss"}
            /\ bpc' = "done"
            /\ fpc \in {"idle", "done"}
            /\ state_file' = Written(SaveState(state, builds))]_vars
    /\ [][(fpc' \notin {"idle", "done"} \/ fpc \notin {"idle", "done"}) =>
            state_file' = state_file /\ state' = state]_vars

\* after a build that saved the state and a fetch cycle that wrote an
\* article, a second build returned on an exception of an upload and the
\* state file still holds the first build's time
C14_Witness ==
    /\ builds = 2
    /\ bpc = "returned"
    /\ uploads # <<>>
    /\ state_file.exists
    /\ state_file.last_build = 1
    /\ fpc = "done"
    /\ Wrote

\* C15 as stated: every upload of the fetch phase goes to the source branch
\* and not to the production branch, every upload of the build to the
\* production branch and not to the source branch, and the build's listing
\* of content/ is served from the source branch.
C15_Original ==
    /\ \A i \in 1..Len(flog) :
          flog[i].put => flog[i].branch = source_branch /\ flog[i].branch # prod_branch
    /\ \A i \in 1..Len(uploads) :
          uploads[i].branch = prod_branch /\ uploads[i].branch # source_branch
    /\ listed \in {"none", source_branch}

\* C17 as stated: two sites of the configuration with different names never
\* load from or save to the same state file.
C17_Original ==
    \A i \in 1..Len(log) : \A j \in 1..Len(log) :
        (/\ log[i].what \in {"load", "save"}
         /\ log[j].what \in {"load", "save"}
         /\ blog_configs[log[i].site] # blog_configs[log[j].site])
        => log[i].file # log[j].file

\* C18: in MultiAIProvider.generate the preferred name is the head of the
\* order; the providers called are, in this order, the preferred one when it
\* has a client and then the other configured providers as gemini, openai,
\* anthropic; a name with no client is never called and none is called twice.
C18_PreferredFirst ==
    (variant = "main" /\ gpc # "idle") =>
        LET preferred == priority[1]
            expected == (IF preferred \in clients THEN <<preferred>> ELSE <<>>)
                            \o SeqFilter(ProviderOrder, clients \ {preferred})
        IN  /\ \A i \in 1..Len(priority) : \A j \in 1..Len(priority) :
                  i # j => priority[i] # priority[j]
            /\ Len(calls) <= Len(expected)
            /\ \A i \in 1..Len(calls) :
                  calls[i].provider = expected[i] /\ calls[i].provider \in clients
            /\ (gpc = "raised" => Len(calls) = Len(expected))

\* anthropic was preferred and failed, then gemini failed, then openai was
\* called
C18_Witness ==
    /\ variant = "main"
    /\ Len(calls) = 3
    /\ calls[1].provider = "anthropic"
    /\ calls[2].provider = "gemini"
    /\ calls[3].provider = "openai"

\* C21 as stated: _translate_post returns True only if the translated file
\* was written to the source branch, and returns False whenever the upload
\* was rejected.
C21_Original ==
    \A i \in 1..Len(flog) :
        flog[i].kind = "translate" =>
            /\ (flog[i].ret => flog[i].written)
            /\ (flog[i].put /\ ~flog[i].written => ~flog[i].ret)

C23_NothingPropagates ==
    /\ [](fpc \in {"idle", "check", "translate", "generate", "langs", "done"})
    /\ [](\A i \in 1..Len(flog) :
            flog[i].kind = "article" =>
                /\ flog[i].lang = languages[i]
                /\ (~flog[i].ret => Len(flog) = i /\ fpc = "done")
                /\ (flog[i].written => Has(content, <<flog[i].lang, NameC>>)))
    /\ [][\A id \in Present(content) : Has(content', id)]_vars

\* the article of the first language was uploaded, then the call for the
\* second language raised: the cycle is over and the first article is there
C23_Witness ==
    /\ fpc = "done"
    /\ Len(flog) = 2
    /\ flog[1].kind = "article"
    /\ flog[1].written
    /\ ~flog[2].ret
    /\ ~flog[2].written
    /\ Has(content, <<languages[1], NameC>>)

\* C24 as stated: in main.py a failure of one site (its engine's
\* construction, its fetch or its build raising) never keeps the sites after
\* it from being processed: when the run is over, every site after the first
\* had each of its requested phases begun.
C24_Original ==
    (variant = "main" /\ mpc \in {"end", "crashed"}) =>
        \A k \in 2..Len(blog_configs) :
            \A phase \in {"fetch", "build"} :
                Wants(variant, args, phase) =>
                    \E i \in 1..Len(log) : log[i] = Event(k, phase, "begin", <<>>)

\* C25: the uploads of one build are, in this order, index.html, the page of
\* every post in the order of the sorted list, which is by non-increasing
\* date, then sitemap.xml, then rss.xml; sitemap.xml is uploaded only when
\* the index and every page were uploaded with no exception, rss.xml only
\* when sitemap.xml was too.
C25_UploadOrder ==
    uploads # <<>> =>
        LET n == Len(posts) IN
        /\ Len(uploads) <= n + 3
        /\ \A i \in 1..Len(uploads) :
              /\ (i = 1 => uploads[i].path = <<"index.html">>)
              /\ (i \in 2..(n + 1) =>
                    /\ uploads[i].path = PostPath(posts[i - 1], domain)
                    /\ uploads[i].lists = <<posts[i - 1].slug>>)
              /\ (i = n + 2 => uploads[i].path = <<"sitemap.xml">>)
              /\ (i = n + 3 => uploads[i].path = <<"rss.xml">>)
              /\ (i < Len(uploads) => uploads[i].outcome # "exception")
        /\ \A k \in 1..(n - 1) : ~Later(posts[k + 1].date, posts[k].date)

\* a build of two posts of different dates uploaded all five files, the page
\* of the later post before the page of the earlier one
C25_Witness ==
    /\ bpc = "done"
    /\ Len(posts) = 2
    /\ Len(uploads) = 5
    /\ Later(posts[1].date, posts[2].date)
    /\ posts[1].slug = <<"b">> \o DotHtml
    /\ uploads[2].lists = <<posts[1].slug>>
    /\ uploads[5].path = <<"rss.xml">>

\* C26: a build_site run whose post list is empty when the files were gone
\* through (no Markdown file listed, or none that downloads and parses), or
\* whose engine has no storage client, parser or template environment,
\* returns with nothing uploaded and with the state file as it was; an upload
\* and a saved state are only there with a post and with the clients.
C26_EmptyBuildUploadsNothing ==
    /\ []((bpc = "returned" /\ (~deps_ok \/ posts = <<>>)) =>
            /\ uploads = <<>>
            /\ state = LoadState(state_file)
            /\ state.last_build < builds)
    /\ []((uploads # <<>> \/ bpc = "done") => posts # <<>> /\ deps_ok)
    /\ [][(bpc # "returned" /\ bpc' = "returned" /\ (~deps_ok' \/ posts' = <<>>)) =>
            state_file' = state_file /\ uploads' = <<>>]_vars

\* the listing gave a Markdown file, no file gave a post, and the build
\* returned with nothing uploaded and no state file
C26_Witness ==
    /\ bpc = "returned"
    /\ deps_ok
    /\ \E i \in 1..Len(files) : EndsWith(files[i][1], DotMd)
    /\ fi > Len(files)
    /\ posts = <<>>
    /\ uploads = <<>>
    /\ ~state_file.exists

\* C27: main.py constructs no engine and begins no fetch and no build when
\* --list is given, when --blog names no configured site (names compared in
\* lower case), or when none of --fetch, --build and --all is given; with a
\* --blog that names a configured site, that site alone is processed.
C27_NothingWithoutPhase ==
    variant = "main" =>
        /\ (\/ args.list
            \/ args.blog # NoBlog /\ Matching(blogs, args.blog) = {}
            \/ ~args.fetch /\ ~args.build /\ ~args.all) =>
              /\ log = <<>>
              /\ mpc \in {"start", "end"}
              /\ calls = <<>>
        /\ (args.blog # NoBlog /\ blog_configs # <<>>) =>
              /\ Len(blog_configs) = 1
              /\ Lower(blog_configs[1]) = Lower(args.blog)
              /\ \E k \in 1..Len(blogs) : blogs[k] = blog_configs[1]
              /\ \A i \in 1..Len(log) : log[i].site = 1

\* --blog "a s" with --all on a configuration of "A s" and "b": the run is
\* over, "A s" had its fetch and its build and nothing else was processed
C27_Witness ==
    /\ variant = "main"
    /\ args.blog = <<"a", " ", "s">>
    /\ blogs = <<SiteOne, SiteThree>>
    /\ mpc = "end"
    /\ blog_configs = <<SiteOne>>
    /\ \E i \in 1..Len(log) : log[i] = Event(1, "fetch", "end", <<>>)
    /\ \E i \in 1..Len(log) : log[i] = Event(1, "build", "end", <<>>)
    /\ \A i \in 1..Len(log) : log[i].site = 1

====
